---- MODULE Spec2Model ----
(***************************************************************************)
(* Model of the dynamically sized Matrix kernel of rmath (src/src/core).   *)
(*                                                                         *)
(* A Matrix is the record [data, rows, columns] of src/src/core/matrix.rs. *)
(* Its f64 elements are modelled by exact rationals <<n, d>> in lowest     *)
(* terms with d > 0; d = 0 encodes the non-finite values (<<1,0>> = +inf,  *)
(* <<-1,0>> = -inf, <<0,0>> = NaN).  Rounding and the sign of zero are     *)
(* abstracted away: the model computes what the code computes in exact     *)
(* arithmetic.  Vec indices are 0-based in the code and 1-based in the     *)
(* sequences here; Get does the shift and yields OOB where the code's      *)
(* indexing would panic.                                                   *)
(***************************************************************************)
EXTENDS Integers, Sequences, FiniteSets, TLC

\* ------------------------------------------------------------------------
\* Bounds of the model
\* ------------------------------------------------------------------------
MaxDim == 4
MaxVal == 2
MaxLen == 3
MaxPairDim == 3

\* ------------------------------------------------------------------------
\* f64 arithmetic, exact
\* ------------------------------------------------------------------------
Abs(x) == IF x < 0 THEN -x ELSE x

Sign(x) == IF x < 0 THEN -1 ELSE IF x > 0 THEN 1 ELSE 0

RECURSIVE GCD(_, _)
GCD(x, y) == IF y = 0 THEN x ELSE GCD(y, x % y)

\* The value an out-of-bounds Vec index stands for: the code panics there.
OOB == <<0, -1>>

Norm(n, d) ==
    IF d = 0 THEN <<Sign(n), 0>>
    ELSE LET g == GCD(Abs(n), Abs(d))
         IN  <<(Sign(d) * n) \div g, Abs(d) \div g>>

F(k) == <<k, 1>>

Zero == F(0)

One == F(1)

IsFinite(x) == x[2] > 0

RNeg(x) == IF x = OOB THEN OOB ELSE <<-x[1], x[2]>>

RAdd(x, y) ==
    IF x = OOB \/ y = OOB THEN OOB
    ELSE IF x[2] = 0 /\ y[2] = 0
         THEN (IF x = y THEN x ELSE <<0, 0>>)
         ELSE Norm(x[1] * y[2] + y[1] * x[2], x[2] * y[2])

RSub(x, y) == RAdd(x, RNeg(y))

RMul(x, y) ==
    IF x = OOB \/ y = OOB THEN OOB
    ELSE Norm(x[1] * y[1], x[2] * y[2])

RDiv(x, y) ==
    IF x = OOB \/ y = OOB THEN OOB
    ELSE IF y = Zero THEN Norm(x[1], 0)
    ELSE RMul(x, Norm(Sign(y[1]) * y[2], Abs(y[1])))

\* f64::EPSILON is 2^-52 = 1 / (TwoPow26 * TwoPow26).
TwoPow26 == 67108864

CeilDiv(x, k) == (x + k - 1) \div k

\* x.abs() > f64::EPSILON, i.e. |n| * 2^52 > d
AbsGtEps(x) == Abs(x[1]) > (x[2] \div TwoPow26) \div TwoPow26

\* x.abs() < f64::EPSILON, i.e. |n| * 2^52 < d
AbsLtEps(x) == Abs(x[1]) < CeilDiv(CeilDiv(x[2], TwoPow26), TwoPow26)

\* ------------------------------------------------------------------------
\* Matrix values and element access
\* ------------------------------------------------------------------------
Matrix(data, rows, columns) == [data |-> data, rows |-> rows, columns |-> columns]

\* Vec indexing data[i], 0-based; panics when i >= data.len()
Get(data, i) == IF i >= 0 /\ i < Len(data) THEN data[i + 1] ELSE OOB

HasOOB(data) == \E i \in DOMAIN data : data[i] = OOB

Ok(v) == [kind |-> "ok", val |-> v]

Err(e) == [kind |-> "err", val |-> e]

Panic == [kind |-> "panic", val |-> "index out of bounds"]

\* a computed f64 / Vec<f64>, or the panic of the indexing that produced it
OkNum(x) == IF x = OOB THEN Panic ELSE Ok(x)

OkMat(m) == IF HasOOB(m.data) THEN Panic ELSE Ok(m)

\* ------------------------------------------------------------------------
\* core/constructors.rs
\* ------------------------------------------------------------------------
zeros(rows, columns) == Matrix([i \in 1..(rows * columns) |-> Zero], rows, columns)

ones(rows, columns) == Matrix([i \in 1..(rows * columns) |-> One], rows, columns)

identity(size) ==
    Matrix([k \in 1..(size * size) |->
               IF (k - 1) \div size = (k - 1) % size THEN One ELSE Zero],
           size, size)

\* ------------------------------------------------------------------------
\* core/helpers.rs
\* ------------------------------------------------------------------------
\* the check with the shape test on the wrong field
check_multiplication_compatible_columns(self, other) ==
    IF self.columns # other.columns
    THEN Err(<<"Matrix dimensions incompatible for multiplication",
               self.rows, self.columns, other.rows, other.columns>>)
    ELSE Ok(<<>>)

check_multiplication_compatible(self, other) ==
    IF self.columns # other.rows
    THEN Err(<<"Matrix dimensions incompatible for multiplication",
               self.rows, self.columns, other.rows, other.columns>>)
    ELSE Ok(<<>>)

check_dimensions_match(self, other) ==
    IF self.rows # other.rows \/ self.columns # other.columns
    THEN Err(<<"Dimension mismatch",
               self.rows, self.columns, other.rows, other.columns>>)
    ELSE Ok(<<>>)

\* the square check that lets every shape through
check_square_always_ok(self) == Ok(<<>>)

check_square(self) ==
    IF self.rows # self.columns
    THEN Err(<<"Matrix is not square", self.rows, self.columns>>)
    ELSE Ok(<<>>)

check_vector(self) == self.rows = 1 \/ self.columns = 1

\* the 3D-vector check that accepts a vector of any length
check_3d_vector_any_length(self) == self.rows = 1 \/ self.columns = 1

\* In Rust && binds tighter than ||: the length test belongs to the 1x3 arm only.
check_3d_vector(self) ==
    (self.rows = 3 /\ self.columns = 1)
    \/ ((self.rows = 1 /\ self.columns = 3) /\ Len(self.data) = 3)

Min(x, y) == IF x <= y THEN x ELSE y

\* iter().zip(): pairs up to the shorter of the two Vecs
ZipLen(d1, d2) == Min(Len(d1), Len(d2))

\* the closures handed to elementwise_operation and scalar_operation
Apply(op, x, y) ==
    CASE op = "+" -> RAdd(x, y)
      [] op = "-" -> RSub(x, y)
      [] op = "*" -> RMul(x, y)
      [] op = "/" -> RDiv(x, y)

\* elementwise_operation without the shape comparison
elementwise_operation_unchecked(self, other, op) ==
    Ok(Matrix([i \in 1..ZipLen(self.data, other.data) |->
                  Apply(op, self.data[i], other.data[i])],
              self.rows, self.columns))

elementwise_operation(self, other, op) ==
    LET chk == check_dimensions_match(self, other)
    IN  IF chk.kind # "ok" THEN chk
        ELSE Ok(Matrix([i \in 1..ZipLen(self.data, other.data) |->
                           Apply(op, self.data[i], other.data[i])],
                       self.rows, self.columns))

\* scalar_operation that leaves the first element as it was
scalar_operation_keeps_first(self, scalar, op) ==
    Matrix([i \in 1..Len(self.data) |->
               IF i = 1 THEN self.data[i] ELSE Apply(op, self.data[i], scalar)],
           self.rows, self.columns)

scalar_operation(self, scalar, op) ==
    Matrix([i \in 1..Len(self.data) |-> Apply(op, self.data[i], scalar)],
           self.rows, self.columns)

\* swap_rows that copies row2 over row1 and leaves row2 as it was
swap_rows_overwrites(self, row1, row2) ==
    IF row1 >= self.rows \/ row2 >= self.rows THEN Ok(self)
    ELSE Ok(Matrix(
           [k \in 1..Len(self.data) |->
               LET r == (k - 1) \div self.columns
                   c == (k - 1) % self.columns
               IN  IF self.columns = 0 THEN self.data[k]
                   ELSE IF r = row1 THEN Get(self.data, row2 * self.columns + c)
                   ELSE self.data[k]],
           self.rows, self.columns))

\* Vec::swap panics when an index is out of bounds; the loop stops there.
swap_rows(self, row1, row2) ==
    IF row1 >= self.rows \/ row2 >= self.rows THEN Ok(self)
    ELSE IF \E col \in 0..(self.columns - 1) :
               \/ row1 * self.columns + col >= Len(self.data)
               \/ row2 * self.columns + col >= Len(self.data)
         THEN Panic
         ELSE Ok(Matrix(
                [k \in 1..Len(self.data) |->
                    LET r == (k - 1) \div self.columns
                        c == (k - 1) % self.columns
                    IN  IF self.columns = 0 THEN self.data[k]
                        ELSE IF r = row1 THEN self.data[row2 * self.columns + c + 1]
                        ELSE IF r = row2 THEN self.data[row1 * self.columns + c + 1]
                        ELSE self.data[k]],
                self.rows, self.columns))

\* ------------------------------------------------------------------------
\* core/operations.rs: linear engine
\* ------------------------------------------------------------------------
\* .zip().map(|(a, b)| a * b).sum(): left to right over the first n pairs
RECURSIVE DotSum(_, _, _)
DotSum(d1, d2, n) ==
    IF n = 0 THEN Zero
    ELSE RAdd(DotSum(d1, d2, n - 1), RMul(d1[n], d2[n]))

\* dot_product without the shape comparison
dot_product_unchecked_shape(self, other) ==
    IF ~check_vector(self) \/ ~check_vector(other)
    THEN Err(<<"Both matrices must be vectors (1xN or Nx1)">>)
    ELSE Ok(DotSum(self.data, other.data, ZipLen(self.data, other.data)))

dot_product(self, other) ==
    IF ~check_vector(self) \/ ~check_vector(other)
    THEN Err(<<"Both matrices must be vectors (1xN or Nx1)">>)
    ELSE LET chk == check_dimensions_match(self, other)
         IN  IF chk.kind # "ok" THEN chk
             ELSE Ok(DotSum(self.data, other.data, ZipLen(self.data, other.data)))

cross_product(self, other) ==
    IF ~check_3d_vector(self) \/ ~check_3d_vector(other)
    THEN Err(<<"Cross product only defined for 3D vectors (length 3)">>)
    ELSE LET a0 == Get(self.data, 0)
             a1 == Get(self.data, 1)
             a2 == Get(self.data, 2)
             b0 == Get(other.data, 0)
             b1 == Get(other.data, 1)
             b2 == Get(other.data, 2)
         IN  OkMat(Matrix(<<RSub(RMul(a1, b2), RMul(a2, b1)),
                            RSub(RMul(a2, b0), RMul(a0, b2)),
                            RSub(RMul(a0, b1), RMul(a1, b0))>>, 3, 1))

\* largest k in lo..hi-1 with k * k <= x, given lo * lo <= x < hi * hi
RECURSIVE ISqrtIn(_, _, _)
ISqrtIn(x, lo, hi) ==
    IF hi - lo <= 1 THEN lo
    ELSE LET mid == (lo + hi) \div 2
         IN  IF mid * mid <= x THEN ISqrtIn(x, mid, hi) ELSE ISqrtIn(x, lo, mid)

ISqrt(x) == ISqrtIn(x, 0, Min(x + 1, 46341))

\* f64::sqrt: exact on squares of rationals, rounded down to a multiple of
\* 1 / (d * SqrtScale) elsewhere; NaN below zero.
SqrtScale == 256

Sqrt(x) ==
    IF x = OOB THEN OOB
    ELSE IF x[2] = 0 THEN (IF x[1] > 0 THEN x ELSE <<0, 0>>)
    ELSE IF x[1] < 0 THEN <<0, 0>>
    ELSE LET exact == ISqrt(x[1] * x[2])
         IN  IF exact * exact = x[1] * x[2] THEN Norm(exact, x[2])
             ELSE Norm(ISqrt(x[1] * x[2] * SqrtScale * SqrtScale), x[2] * SqrtScale)

magnitude(self) ==
    IF ~check_vector(self)
    THEN Err(<<"Matrix must be a vector to calculate magnitude">>)
    ELSE LET dot == dot_product(self, self)
         IN  IF dot.kind # "ok" THEN dot ELSE Ok(Sqrt(dot.val))

unit_vector(self) ==
    LET mag == magnitude(self)
    IN  IF mag.kind # "ok" THEN mag
        ELSE IF mag.val = Zero
             THEN Err(<<"Cannot normalize zero-length vector">>)
             ELSE Ok(scalar_operation(self, mag.val, "/"))

\* normalize without the zero-magnitude test
normalize_unguarded(self) ==
    LET mag == magnitude(self)
    IN  IF mag.kind # "ok" THEN mag
        ELSE Ok(Matrix([i \in 1..Len(self.data) |-> RDiv(self.data[i], mag.val)],
                       self.rows, self.columns))

\* normalize(&mut self): the result carries the receiver after the call
normalize(self) ==
    LET mag == magnitude(self)
    IN  IF mag.kind # "ok" THEN mag
        ELSE IF mag.val = Zero
             THEN Err(<<"Cannot normalize zero-length vector">>)
             ELSE Ok(Matrix([i \in 1..Len(self.data) |-> RDiv(self.data[i], mag.val)],
                            self.rows, self.columns))

\* scalar_projection_onto that takes a failed dot product for 0.0
scalar_projection_onto_defaulting(self, other) ==
    LET dot == dot_product(self, other)
        other_mag == magnitude(other)
    IN  IF other_mag.kind # "ok" THEN other_mag
        ELSE Ok(RDiv(IF dot.kind = "ok" THEN dot.val ELSE Zero, other_mag.val))

scalar_projection_onto(self, other) ==
    LET dot == dot_product(self, other)
    IN  IF dot.kind # "ok" THEN dot
        ELSE LET other_mag == magnitude(other)
             IN  IF other_mag.kind # "ok" THEN other_mag
                 ELSE Ok(RDiv(dot.val, other_mag.val))

vector_projection_onto(self, other) ==
    LET dot == dot_product(self, other)
    IN  IF dot.kind # "ok" THEN dot
        ELSE LET other_mag_squared == dot_product(other, other)
             IN  IF other_mag_squared.kind # "ok" THEN other_mag_squared
                 ELSE Ok(scalar_operation(other,
                                          RDiv(dot.val, other_mag_squared.val), "*"))

\* the double loop of transpose, at step t = i * columns + j, writing into data
RECURSIVE TransposeLoop(_, _, _)
TransposeLoop(self, t, data) ==
    IF t >= self.rows * self.columns THEN data
    ELSE LET i == t \div self.columns
             j == t % self.columns
         IN  TransposeLoop(self, t + 1,
                 [data EXCEPT ![j * self.rows + i + 1] =
                                  Get(self.data, i * self.columns + j)])

\* transpose that moves the data and leaves the counts as they were
transpose_keeps_shape(self) ==
    OkMat(Matrix(TransposeLoop(self, 0, zeros(self.rows, self.columns).data),
                 self.rows, self.columns))

\* transpose that swaps the counts and leaves the data in source order
transpose_copy(self) == OkMat(Matrix(self.data, self.columns, self.rows))

transpose(self) ==
    OkMat(Matrix(TransposeLoop(self, 0, zeros(self.rows, self.columns).data),
                 self.columns, self.rows))

\* the innermost loop of multiply: sum over k < n, starting from 0.0
RECURSIVE MulSum(_, _, _, _, _)
MulSum(self, other, i, j, n) ==
    IF n = 0 THEN Zero
    ELSE RAdd(MulSum(self, other, i, j, n - 1),
              RMul(Get(self.data, i * self.columns + (n - 1)),
                   Get(other.data, (n - 1) * other.columns + j)))

\* the two outer loops of multiply, at step t = i * other.columns + j
RECURSIVE MulLoop(_, _, _, _)
MulLoop(self, other, t, data) ==
    IF t >= self.rows * other.columns THEN data
    ELSE LET i == t \div other.columns
             j == t % other.columns
         IN  MulLoop(self, other, t + 1,
                 [data EXCEPT ![i * other.columns + j + 1] =
                                  MulSum(self, other, i, j, self.columns)])

multiply(self, other) ==
    LET chk == check_multiplication_compatible(self, other)
    IN  IF chk.kind # "ok" THEN chk
        ELSE OkMat(Matrix(MulLoop(self, other, 0, zeros(self.rows, other.columns).data),
                          self.rows, other.columns))

\* ------------------------------------------------------------------------
\* core/operations.rs: structural engine
\* ------------------------------------------------------------------------
\* the scan of minor, at step t = i * columns + j, pushing onto data
RECURSIVE MinorScan(_, _, _, _, _)
MinorScan(self, row, col, t, data) ==
    IF t >= self.rows * self.columns THEN data
    ELSE LET i == t \div self.columns
             j == t % self.columns
         IN  IF i = row \/ j = col
             THEN MinorScan(self, row, col, t + 1, data)
             ELSE MinorScan(self, row, col, t + 1,
                            Append(data, Get(self.data, i * self.columns + j)))

\* minor declaring the order of its source
minor_keeps_order(self, row, col) ==
    LET chk == check_square(self)
    IN  IF chk.kind # "ok" THEN chk
        ELSE IF row >= self.rows \/ col >= self.columns
             THEN Err(<<"Row or column out of bounds", row, col, self.rows, self.columns>>)
             ELSE OkMat(Matrix(MinorScan(self, row, col, 0, <<>>), self.rows, self.rows))

\* minor without the bounds test on row and col
minor_unchecked_bounds(self, row, col) ==
    LET chk == check_square(self)
    IN  IF chk.kind # "ok" THEN chk
        ELSE OkMat(Matrix(MinorScan(self, row, col, 0, <<>>),
                          self.rows - 1, self.rows - 1))

minor(self, row, col) ==
    LET chk == check_square(self)
    IN  IF chk.kind # "ok" THEN chk
        ELSE IF row >= self.rows \/ col >= self.columns
             THEN Err(<<"Row or column out of bounds", row, col, self.rows, self.columns>>)
             ELSE OkMat(Matrix(MinorScan(self, row, col, 0, <<>>),
                               self.rows - 1, self.rows - 1))

\* the sign that never alternates
LaplaceSignAllPlus(col) == F(1)

\* sign of the Laplace term / cofactor: +1.0 on even index, -1.0 on odd
LaplaceSign(col) == IF col % 2 = 0 THEN F(1) ELSE F(-1)

RECURSIVE determinant(_)
RECURSIVE Laplace(_, _, _)
\* the Laplace loop of determinant from column col on, det accumulated so far
Laplace(self, col, det) ==
    IF col >= self.columns THEN OkNum(det)
    ELSE LET mn == minor(self, 0, col)
         IN  IF mn.kind # "ok" THEN mn
             ELSE LET d == determinant(mn.val)
                  IN  IF d.kind # "ok" THEN d
                      ELSE Laplace(self, col + 1,
                               RAdd(det, RMul(RMul(Get(self.data, col), LaplaceSign(col)),
                                              d.val)))

Sarrus(a) ==
    RSub(RSub(RSub(RAdd(RAdd(RMul(RMul(Get(a, 0), Get(a, 4)), Get(a, 8)),
                             RMul(RMul(Get(a, 1), Get(a, 5)), Get(a, 6))),
                        RMul(RMul(Get(a, 2), Get(a, 3)), Get(a, 7))),
                   RMul(RMul(Get(a, 2), Get(a, 4)), Get(a, 6))),
              RMul(RMul(Get(a, 1), Get(a, 3)), Get(a, 8))),
         RMul(RMul(Get(a, 0), Get(a, 5)), Get(a, 7)))

\* determinant with the empty product, 1.0, for the 0x0 matrix
determinant_empty_is_one(self) ==
    LET chk == check_square(self)
    IN  IF chk.kind # "ok" THEN chk
        ELSE CASE self.rows = 0 -> Ok(One)
               [] self.rows = 1 -> OkNum(Get(self.data, 0))
               [] self.rows = 2 ->
                    OkNum(RSub(RMul(Get(self.data, 0), Get(self.data, 3)),
                               RMul(Get(self.data, 1), Get(self.data, 2))))
               [] self.rows = 3 -> OkNum(Sarrus(self.data))
               [] OTHER -> Laplace(self, 0, Zero)

determinant(self) ==
    LET chk == check_square(self)
    IN  IF chk.kind # "ok" THEN chk
        ELSE CASE self.rows = 1 -> OkNum(Get(self.data, 0))
               [] self.rows = 2 ->
                    OkNum(RSub(RMul(Get(self.data, 0), Get(self.data, 3)),
                               RMul(Get(self.data, 1), Get(self.data, 2))))
               [] self.rows = 3 -> OkNum(Sarrus(self.data))
               [] OTHER -> Laplace(self, 0, Zero)

\* The calls determinant(self), itself in stack frame `frame`, makes on
\* minors, nested ones included: the order of the caller, the order of the
\* minor it calls, and the stack frame of that call.  The Laplace loop stops
\* at the first minor or determinant that fails.
RECURSIVE DeterminantCalls(_, _)
RECURSIVE LaplaceCalls(_, _, _)
LaplaceCalls(self, col, frame) ==
    IF col >= self.columns THEN {}
    ELSE LET mn == minor(self, 0, col)
         IN  IF mn.kind # "ok" THEN {}
             ELSE {[from |-> self.rows, to |-> mn.val.rows, frame |-> frame + 1]}
                  \cup DeterminantCalls(mn.val, frame + 1)
                  \cup (IF determinant(mn.val).kind # "ok" THEN {}
                        ELSE LaplaceCalls(self, col + 1, frame))

DeterminantCalls(self, frame) ==
    IF check_square(self).kind # "ok" \/ self.rows \in {1, 2, 3} THEN {}
    ELSE LaplaceCalls(self, 0, frame)

\* the cofactor loop of inverse, at step t = row * size + col
RECURSIVE CofactorLoop(_, _, _)
CofactorLoop(self, t, cofactors) ==
    LET size == self.rows
    IN  IF t >= size * size THEN Ok(cofactors)
        ELSE LET row == t \div size
                 col == t % size
                 mn  == minor(self, row, col)
             IN  IF mn.kind # "ok" THEN mn
                 ELSE LET d == determinant(mn.val)
                      IN  IF d.kind # "ok" THEN d
                          ELSE CofactorLoop(self, t + 1,
                                 [cofactors EXCEPT !.data[col * size + row + 1] =
                                      RMul(LaplaceSign(row + col), d.val)])

\* inverse without the singularity test
inverse_unguarded(self) ==
    LET chk == check_square(self)
    IN  IF chk.kind # "ok" THEN chk
        ELSE LET det == determinant(self)
             IN  IF det.kind # "ok" THEN det
                 ELSE LET cof == CofactorLoop(self, 0, ones(self.rows, self.rows))
                      IN  IF cof.kind # "ok" THEN cof
                          ELSE Ok(scalar_operation(cof.val, det.val, "/"))

\* inverse that writes each cofactor at [row][col]
inverse_untransposed(self) ==
    LET r == inverse_unguarded(self)
        det == determinant(self)
    IN  IF r.kind # "ok" THEN r
        ELSE IF AbsLtEps(det.val)
             THEN Err(<<"Matrix is singular (determinant = 0), cannot invert">>)
             ELSE transpose(r.val)

inverse(self) ==
    LET chk == check_square(self)
    IN  IF chk.kind # "ok" THEN chk
        ELSE LET det == determinant(self)
             IN  IF det.kind # "ok" THEN det
                 ELSE IF AbsLtEps(det.val)
                      THEN Err(<<"Matrix is singular (determinant = 0), cannot invert">>)
                      ELSE LET cof == CofactorLoop(self, 0, ones(self.rows, self.rows))
                           IN  IF cof.kind # "ok" THEN cof
                               ELSE Ok(scalar_operation(cof.val, det.val, "/"))

\* (0..rows).map(|i| data[i * columns + i]).sum()
RECURSIVE TraceSum(_, _)
TraceSum(self, n) ==
    IF n = 0 THEN Zero
    ELSE RAdd(TraceSum(self, n - 1), Get(self.data, (n - 1) * self.columns + (n - 1)))

trace(self) ==
    LET chk == check_square(self)
    IN  IF chk.kind # "ok" THEN chk
        ELSE OkNum(TraceSum(self, self.rows))

\* (rank..rows).find(|row| data[row * columns + col].abs() > EPSILON), scanning
\* from row: the pivot row, NoPivot, or PivotPanic when the scan indexes past
\* the end of data
NoPivot == -1

PivotPanic == -2

RECURSIVE FindPivot(_, _, _)
FindPivot(matrix, col, row) ==
    IF row >= matrix.rows THEN NoPivot
    ELSE LET x == Get(matrix.data, row * matrix.columns + col)
         IN  IF x = OOB THEN PivotPanic
             ELSE IF AbsGtEps(x) THEN row
             ELSE FindPivot(matrix, col, row + 1)

\* factor = data[row * columns + col] / data[rank * columns + col]
Factor(matrix, col, rank, row) ==
    RDiv(Get(matrix.data, row * matrix.columns + col),
         Get(matrix.data, rank * matrix.columns + col))

\* the elimination pass that starts one column late: for c in col + 1..columns
EliminateRowFromNext(matrix, col, rank, row) ==
    LET factor == Factor(matrix, col, rank, row)
        C == matrix.columns
    IN  IF factor = OOB THEN Panic
        ELSE IF ~AbsGtEps(factor) THEN Ok(matrix)
        ELSE Ok([matrix EXCEPT !.data =
                   [k \in 1..Len(matrix.data) |->
                       IF (k - 1) \div C = row /\ (k - 1) % C > col
                       THEN RSub(matrix.data[k],
                                 RMul(factor, matrix.data[rank * C + ((k - 1) % C) + 1]))
                       ELSE matrix.data[k]]])

\* one pass of the elimination loop body for `row`: the matrix after it
EliminateRow(matrix, col, rank, row) ==
    LET factor == Factor(matrix, col, rank, row)
        C == matrix.columns
    IN  IF factor = OOB THEN Panic
        ELSE IF ~AbsGtEps(factor) THEN Ok(matrix)
        ELSE IF \E c \in col..(C - 1) :
                   row * C + c >= Len(matrix.data) \/ rank * C + c >= Len(matrix.data)
             THEN Panic
             ELSE Ok([matrix EXCEPT !.data =
                        [k \in 1..Len(matrix.data) |->
                            IF (k - 1) \div C = row /\ (k - 1) % C >= col
                            THEN RSub(matrix.data[k],
                                      RMul(factor,
                                           matrix.data[rank * C + ((k - 1) % C) + 1]))
                            ELSE matrix.data[k]]])

\* for row in (0..rows).filter(|&r| r != rank), from `row` on
RECURSIVE EliminateLoop(_, _, _, _)
EliminateLoop(matrix, col, rank, row) ==
    IF row >= matrix.rows THEN Ok(matrix)
    ELSE IF row = rank THEN EliminateLoop(matrix, col, rank, row + 1)
    ELSE LET r == EliminateRow(matrix, col, rank, row)
         IN  IF r.kind # "ok" THEN r
             ELSE EliminateLoop(r.val, col, rank, row + 1)

\* The working state of rank: the private copy, the rank counter, the column
\* the loop is at, and whether an index panicked.
RankState(matrix, rank, col, panicked) ==
    [matrix |-> matrix, rank |-> rank, col |-> col, panicked |-> panicked]

\* the body of `for col in 0..n` for w.col
RankStep(w) ==
    LET pivot_row == FindPivot(w.matrix, w.col, w.rank)
    IN  IF pivot_row = PivotPanic THEN RankState(w.matrix, w.rank, w.col, TRUE)
        ELSE IF pivot_row = NoPivot THEN RankState(w.matrix, w.rank, w.col + 1, FALSE)
        ELSE LET swapped == IF pivot_row # w.rank
                            THEN swap_rows(w.matrix, pivot_row, w.rank)
                            ELSE Ok(w.matrix)
             IN  IF swapped.kind # "ok" THEN RankState(w.matrix, w.rank, w.col, TRUE)
                 ELSE LET e == EliminateLoop(swapped.val, w.col, w.rank, 0)
                      IN  IF e.kind # "ok"
                          THEN RankState(swapped.val, w.rank, w.col, TRUE)
                          ELSE RankState(e.val, w.rank + 1, w.col + 1, FALSE)

\* n = self.rows.min(self.columns)
RankCols(self) == Min(self.rows, self.columns)

RECURSIVE RankLoop(_, _)
RankLoop(self, w) ==
    IF w.panicked \/ w.col >= RankCols(self) THEN w
    ELSE RankLoop(self, RankStep(w))

\* the working state when rank returns (or panics)
RankRun(self) == RankLoop(self, RankState(self, 0, 0, FALSE))

\* the working state after the first k passes of `for col in 0..n`
RECURSIVE RankAfter(_, _)
RankAfter(self, k) ==
    IF k = 0 THEN RankState(self, 0, 0, FALSE)
    ELSE LET w == RankAfter(self, k - 1)
         IN  IF w.panicked \/ w.col >= RankCols(self) THEN w ELSE RankStep(w)

\* rank that returns the number of columns examined
rank_counts_columns(self) ==
    LET w == RankRun(self)
    IN  IF w.panicked THEN Panic ELSE Ok(w.col)

\* rank that asks for a square matrix first, as determinant does
rank_checked_square(self) ==
    LET chk == check_square(self)
        w == RankRun(self)
    IN  IF chk.kind # "ok" THEN chk
        ELSE IF w.panicked THEN Panic ELSE Ok(w.rank)

rank(self) ==
    LET w == RankRun(self)
    IN  IF w.panicked THEN Panic ELSE Ok(w.rank)

\* the receiver aliased with the working matrix
RankSelfAliased(self, w) == w.matrix

\* let mut matrix = self.clone(): the loop that ended in w ran on the clone,
\* and the &self receiver is what it was
RankSelf(self, w) == self

\* ------------------------------------------------------------------------
\* matrix/matrix.rs: the fixed-size variant Matrix<N>, data: [f64; N]
\* ------------------------------------------------------------------------
\* panic!(...) with its message
PanicWith(msg) == [kind |-> "panic", val |-> msg]

\* validate_dimensions that lets storage larger than rows * columns through
validate_dimensions_at_most(N, rows, columns) ==
    IF rows * columns > N
    THEN PanicWith("Matrix dimensions don't match storage")
    ELSE Ok(<<>>)

validate_dimensions(N, rows, columns) ==
    IF rows * columns # N
    THEN PanicWith("Matrix dimensions don't match storage")
    ELSE Ok(<<>>)

\* Matrix::<N>::new(rows, columns), random_array() having drawn `data`
new_n(N, rows, columns, data) ==
    LET chk == validate_dimensions(N, rows, columns)
    IN  IF chk.kind # "ok" THEN chk ELSE Ok(Matrix(data, rows, columns))

\* Matrix::<N>::zeros(rows, columns)
zeros_n(N, rows, columns) ==
    LET chk == validate_dimensions(N, rows, columns)
    IN  IF chk.kind # "ok" THEN chk
        ELSE Ok(Matrix([i \in 1..N |-> Zero], rows, columns))

\* Matrix::<N>::ones(rows, columns)
ones_n(N, rows, columns) ==
    LET chk == validate_dimensions(N, rows, columns)
    IN  IF chk.kind # "ok" THEN chk
        ELSE Ok(Matrix([i \in 1..N |-> One], rows, columns))

\* self.data[row * self.columns + column]; indexing past N panics
get(self, row, column) == Get(self.data, row * self.columns + column)

\* the innermost loop of mul: sum over k < n, starting from 0.0
RECURSIVE MulNSum(_, _, _, _, _)
MulNSum(self, other, i, j, n) ==
    IF n = 0 THEN Zero
    ELSE RAdd(MulNSum(self, other, i, j, n - 1),
              RMul(get(self, i, n - 1), get(other, n - 1, j)))

\* the two outer loops of mul, at step t = i * result_columns + j: the
\* result so far, or the panic of an index past N
RECURSIVE MulNLoop(_, _, _, _)
MulNLoop(self, other, t, result) ==
    IF t >= self.rows * other.columns THEN Ok(result)
    ELSE LET i == t \div other.columns
             j == t % other.columns
             sum == MulNSum(self, other, i, j, self.columns)
         IN  IF sum = OOB \/ i * result.columns + j >= Len(result.data) THEN Panic
             ELSE MulNLoop(self, other, t + 1,
                      [result EXCEPT !.data[i * result.columns + j + 1] = sum])

\* mul that builds its result without validating rows * columns against N
mul_unvalidated(self, other) ==
    IF self.columns # other.rows
    THEN PanicWith("Matrix dimensions mismatch")
    ELSE MulNLoop(self, other, 0,
                  Matrix([i \in 1..Len(self.data) |-> Zero], self.rows, other.columns))

\* Matrix::<N>::mul with N = the storage size of self
mul(self, other) ==
    IF self.columns # other.rows
    THEN PanicWith("Matrix dimensions mismatch")
    ELSE LET result == zeros_n(Len(self.data), self.rows, other.columns)
         IN  IF result.kind # "ok" THEN result
             ELSE MulNLoop(self, other, 0, result.val)

\* ------------------------------------------------------------------------
\* The state machine: a caller builds operands and calls the kernel
\* ------------------------------------------------------------------------
VARIABLES
    a,      \* the receiver (self) of the calls
    b,      \* the other operand of the binary operations
    op,     \* the operation called last ("new" after construction)
    args,   \* the index arguments the last call was given
    out,    \* what the last call returned: Ok(v), Err(e) or Panic
    work    \* the private working copy the last rank call ended with

vars == <<a, b, op, args, out, work>>

NoResult == [kind |-> "none", val |-> <<>>]

NoWork == RankState(zeros(0, 0), 0, 0, FALSE)

\* vec![1.0, 2.0, ..., len]
Ramp(len) == [i \in 1..len |-> F(i)]

\* Matrix { data: vec![...], rows, columns } with the data following a
\* quadratic pattern in the flat index, values in -MaxVal..MaxVal
Pattern(rows, columns, p, q, r) ==
    Matrix([k \in 1..(rows * columns) |->
               F(((p * (k - 1) * (k - 1) + q * (k - 1) + r) % (2 * MaxVal + 1)) - MaxVal)],
           rows, columns)

Dims == 0..MaxDim

\* the singular matrix of test_inverse / test_rank and the matrix of the
\* inverse scenario
TestMatrices ==
    {Matrix(<<F(1), F(2), F(2), F(4)>>, 2, 2), Matrix(<<F(4), F(7), F(2), F(6)>>, 2, 2)}

\* the matrices a caller hands to the structural engine: the constructors,
\* sound struct literals, and struct literals whose data length does not
\* match rows * columns (the fields are public)
Operands ==
    {zeros(r, c) : r \in Dims, c \in Dims}
    \cup {ones(r, c) : r \in Dims, c \in Dims}
    \cup {identity(n) : n \in Dims}
    \cup {Matrix(Ramp(r * c), r, c) : r \in Dims, c \in Dims}
    \cup UNION {{Matrix(Ramp(len), r, c) : len \in 0..MaxLen} : r \in Dims, c \in Dims}
    \cup UNION {{Pattern(r, c, p, q, s) : p \in 0..MaxVal, q \in 0..MaxVal, s \in 0..MaxVal} :
                    r \in Dims, c \in Dims}
    \cup TestMatrices

PairDims == 0..MaxPairDim

\* the operand pairs of the binary operations: sound matrices only
Receivers ==
    {zeros(r, c) : r \in PairDims, c \in PairDims}
    \cup {ones(r, c) : r \in PairDims, c \in PairDims}
    \cup {identity(n) : n \in PairDims}
    \cup {Matrix(Ramp(r * c), r, c) : r \in PairDims, c \in PairDims}
    \cup UNION {{Pattern(r, c, p, 1, 0) : p \in 1..MaxVal} : r \in PairDims, c \in PairDims}

Others ==
    {ones(r, c) : r \in PairDims, c \in PairDims}
    \cup {Matrix(Ramp(r * c), r, c) : r \in PairDims, c \in PairDims}

Scalars == {F(k) : k \in 0..MaxVal}

Init ==
    /\ a \in Operands
    /\ b = zeros(0, 0)
    /\ op = "new"
    /\ args = <<>>
    /\ out = NoResult
    /\ work = NoWork

InitPair ==
    /\ a \in Receivers
    /\ b \in Others
    /\ op = "new"
    /\ args = <<>>
    /\ out = NoResult
    /\ work = NoWork

\* A run is one call on freshly built operands.  The calls that borrow their
\* operands read-only leave them as built, so a longer run reaches the same
\* states; the calls on &mut self end the run with the receiver they leave.
Fresh == op = "new"

\* a call that borrows its operands read-only, given the indices `given`
CallAt(name, given, result) ==
    /\ Fresh
    /\ op' = name
    /\ args' = given
    /\ out' = result
    /\ work' = NoWork
    /\ UNCHANGED <<a, b>>

\* a call that borrows its operands read-only
Call(name, result) == CallAt(name, <<>>, result)

\* a call on &mut self: `result` is Ok(the receiver after the call), or the
\* failure that left it as it was
CallMut(name, given, result) ==
    /\ Fresh
    /\ op' = name
    /\ args' = given
    /\ out' = IF result.kind = "ok" THEN Ok(<<>>) ELSE result
    /\ a' = IF result.kind = "ok" THEN result.val ELSE a
    /\ work' = NoWork
    /\ UNCHANGED b

Determinant == Call("determinant", determinant(a))

Inverse == Call("inverse", inverse(a))

Trace == Call("trace", trace(a))

Rank ==
    /\ Fresh
    /\ op' = "rank"
    /\ args' = <<>>
    /\ out' = rank(a)
    /\ work' = RankRun(a)
    /\ a' = RankSelf(a, RankRun(a))
    /\ UNCHANGED b

Check3dVector == Call("check_3d_vector", Ok(check_3d_vector(a)))

Minor ==
    \E row \in Dims, col \in Dims : CallAt("minor", <<row, col>>, minor(a, row, col))

Transpose == Call("transpose", transpose(a))

Addition == Call("addition", elementwise_operation(a, b, "+"))

Subtraction == Call("subtraction", elementwise_operation(a, b, "-"))

HadamardMultiplication ==
    Call("hadamard_multiplication", elementwise_operation(a, b, "*"))

HadamardDivision == Call("hadamard_division", elementwise_operation(a, b, "/"))

ScalarAddition ==
    \E s \in Scalars : Call("scalar_addition", Ok(scalar_operation(a, s, "+")))

ScalarSubtraction ==
    \E s \in Scalars : Call("scalar_subtraction", Ok(scalar_operation(a, s, "-")))

ScalarMultiplication ==
    \E s \in Scalars : Call("scalar_multiplication", Ok(scalar_operation(a, s, "*")))

ScalarDivision ==
    \E s \in Scalars : Call("scalar_division", Ok(scalar_operation(a, s, "/")))

Multiply == Call("multiply", multiply(a, b))

DotProduct == Call("dot_product", dot_product(a, b))

CrossProduct == Call("cross_product", cross_product(a, b))

Magnitude == Call("magnitude", magnitude(a))

UnitVector == Call("unit_vector", unit_vector(a))

ScalarProjectionOnto == Call("scalar_projection_onto", scalar_projection_onto(a, b))

VectorProjectionOnto == Call("vector_projection_onto", vector_projection_onto(a, b))

Normalize == CallMut("normalize", <<>>, normalize(a))

SwapRows ==
    \E row1 \in PairDims, row2 \in PairDims :
        CallMut("swap_rows", <<row1, row2>>, swap_rows(a, row1, row2))

\* the structural engine on one matrix
Next ==
    \/ Determinant
    \/ Inverse
    \/ Trace
    \/ Rank
    \/ Check3dVector

Spec == Init /\ [][Next]_vars

\* every core operation on a pair of sound matrices
NextPair ==
    \/ Determinant
    \/ Inverse
    \/ Trace
    \/ Rank
    \/ Check3dVector
    \/ Minor
    \/ Transpose
    \/ Addition
    \/ Subtraction
    \/ HadamardMultiplication
    \/ HadamardDivision
    \/ ScalarAddition
    \/ ScalarSubtraction
    \/ ScalarMultiplication
    \/ ScalarDivision
    \/ Multiply
    \/ DotProduct
    \/ CrossProduct
    \/ Magnitude
    \/ UnitVector
    \/ ScalarProjectionOnto
    \/ VectorProjectionOnto
    \/ Normalize
    \/ SwapRows

SpecPair == InitPair /\ [][NextPair]_vars

\* the shapes the 3D-vector check tells apart
CrossShapes == {<<3, 1>>, <<1, 3>>, <<3, 3>>, <<1, 1>>}

\* the vectors of the cross product scenarios
CrossVectors ==
    {<<F(1), F(0), F(0)>>, <<F(0), F(1), F(0)>>, <<F(4), F(5), F(6)>>,
     <<F(0), F(0), F(0)>>}

\* what a caller hands to cross_product: struct literals of 3D-vector and
\* other shapes, with data of the right and of the wrong length
CrossOperands ==
    UNION {{Matrix(Ramp(len), sh[1], sh[2]) : len \in 0..MaxLen} : sh \in CrossShapes}
    \cup UNION {{Matrix(v, 3, 1), Matrix(v, 1, 3)} : v \in CrossVectors}

InitCross ==
    /\ a \in CrossOperands
    /\ b \in CrossOperands
    /\ op = "new"
    /\ args = <<>>
    /\ out = NoResult
    /\ work = NoWork

\* cross_product on a pair of struct literals
NextCross == CrossProduct

SpecCross == InitCross /\ [][NextCross]_vars

MaxFixedDim == 3

FixedDims == 0..MaxFixedDim

\* the storage sizes N that some shape within the bound fills
FixedSizes == {r * c : r \in FixedDims, c \in FixedDims}

\* values random_range(0.0..1.0) can draw
UnitValues == {Zero, Norm(1, 2)}

\* arrays random_array() can return: a sample of the draws, two values
\* alternating
RandomArrays(N) ==
    {[i \in 1..N |-> IF i % 2 = 1 THEN x ELSE y] : x \in UnitValues, y \in UnitValues}

\* the Matrix<N> values a caller can hold: the fields are private, so each
\* was built by a constructor and filled through set_data
FixedOperands(N) ==
    UNION {{Matrix(d, sh[1], sh[2]) :
                d \in {[i \in 1..N |-> Zero], [i \in 1..N |-> One], Ramp(N)}} :
           sh \in {s \in FixedDims \X FixedDims : s[1] * s[2] = N}}

InitFixed ==
    /\ \E N \in FixedSizes : a \in FixedOperands(N) /\ b \in FixedOperands(N)
    /\ op = "new"
    /\ args = <<>>
    /\ out = NoResult
    /\ work = NoWork

FixedNew ==
    \E N \in FixedSizes, rows \in FixedDims, columns \in FixedDims :
        \E data \in RandomArrays(N) :
            CallAt("Matrix<N>::new", <<N, rows, columns>>, new_n(N, rows, columns, data))

FixedZeros ==
    \E N \in FixedSizes, rows \in FixedDims, columns \in FixedDims :
        CallAt("Matrix<N>::zeros", <<N, rows, columns>>, zeros_n(N, rows, columns))

FixedOnes ==
    \E N \in FixedSizes, rows \in FixedDims, columns \in FixedDims :
        CallAt("Matrix<N>::ones", <<N, rows, columns>>, ones_n(N, rows, columns))

FixedMul == Call("Matrix<N>::mul", mul(a, b))

\* the fixed-size variant: its constructors and its multiplication
NextFixed ==
    \/ FixedNew
    \/ FixedZeros
    \/ FixedOnes
    \/ FixedMul

SpecFixed == InitFixed /\ [][NextFixed]_vars

\* ------------------------------------------------------------------------
\* Reference notions the properties are stated against
\* ------------------------------------------------------------------------
\* data.len() == rows * columns
WellFormed(m) == Len(m.data) = m.rows * m.columns

IsSquare(m) == m.rows = m.columns

\* the entry at row i, column j (0-based) of a sound matrix
Entry(m, i, j) == m.data[i * m.columns + j + 1]

\* all orderings of the set S, as sequences
RECURSIVE PermSeqs(_)
PermSeqs(S) ==
    IF S = {} THEN {<<>>}
    ELSE UNION {{<<x>> \o p : p \in PermSeqs(S \ {x})} : x \in S}

MaxOrder == IF MaxDim > MaxPairDim THEN MaxDim ELSE MaxPairDim

PermsOf == [n \in 0..MaxOrder |-> PermSeqs(1..n)]

Inversions(p) ==
    Cardinality({ij \in (DOMAIN p) \X (DOMAIN p) : ij[1] < ij[2] /\ p[ij[1]] > p[ij[2]]})

PermSign(p) == IF Inversions(p) % 2 = 0 THEN F(1) ELSE F(-1)

\* the product of entry(i, p[i]) over i in 1..n
RECURSIVE PermProduct(_, _, _)
PermProduct(entry(_, _), p, n) ==
    IF n = 0 THEN One ELSE RMul(PermProduct(entry, p, n - 1), entry(n, p[n]))

RECURSIVE SumOverPerms(_, _, _)
SumOverPerms(entry(_, _), n, ps) ==
    IF ps = {} THEN Zero
    ELSE LET p == CHOOSE q \in ps : TRUE
         IN  RAdd(RMul(PermSign(p), PermProduct(entry, p, n)),
                  SumOverPerms(entry, n, ps \ {p}))

\* the determinant as the signed sum over permutations, of the n x n array
\* entry(i, j), i and j in 1..n
Leibniz(entry(_, _), n) == SumOverPerms(entry, n, PermsOf[n])

\* the mathematical determinant of a sound square matrix
MathDet(m) ==
    LET e(i, j) == Entry(m, i - 1, j - 1)
    IN  Leibniz(e, m.rows)

\* the elements of a set of naturals in increasing order
RECURSIVE Sorted(_)
Sorted(S) ==
    IF S = {} THEN <<>>
    ELSE LET x == CHOOSE y \in S : \A z \in S : y <= z
         IN  <<x>> \o Sorted(S \ {x})

\* the determinant of the square submatrix of m on rows R and columns C
SubDet(m, R, C) ==
    LET rs == Sorted(R)
        cs == Sorted(C)
        e(i, j) == Entry(m, rs[i], cs[j])
    IN  Leibniz(e, Cardinality(R))

\* the number of linearly independent rows (= columns) of a sound matrix:
\* the largest order of a square submatrix with nonzero determinant
MathRank(m) ==
    LET ks == {k \in 0..Min(m.rows, m.columns) :
                 \E R \in SUBSET (0..(m.rows - 1)) :
                     /\ Cardinality(R) = k
                     /\ \E C \in SUBSET (0..(m.columns - 1)) :
                            /\ Cardinality(C) = k
                            /\ SubDet(m, R, C) # Zero}
    IN  CHOOSE k \in ks : \A j \in ks : j <= k

\* ------------------------------------------------------------------------
\* Properties
\* ------------------------------------------------------------------------
\* C1: for every invertible square matrix A of order n >= 1 (1x1 included),
\* inverse(A) returns Ok(B) and multiply(A, B) is identity(n), entry for entry.
C1_InverseRoundTrip ==
    (op = "inverse" /\ WellFormed(a) /\ IsSquare(a) /\ a.rows >= 1 /\ MathDet(a) # Zero)
        => (out.kind = "ok" /\ multiply(a, out.val) = Ok(identity(a.rows)))

\* C1 restricted to the orders where the minors are not empty
C1_RoundTripFromOrder2 ==
    (op = "inverse" /\ WellFormed(a) /\ IsSquare(a) /\ a.rows >= 2 /\ MathDet(a) # Zero)
        => (out.kind = "ok" /\ multiply(a, out.val) = Ok(identity(a.rows)))

\* C2: rank(A) is the number of linearly independent rows of A, for every
\* shape, wide matrices and matrices with skipped columns included.
C2_RankIsMathRank ==
    (op = "rank" /\ WellFormed(a)) => out = Ok(MathRank(a))

\* C2 restricted to the matrices that are not wider than tall
C2_RankOfTallOrSquare ==
    (op = "rank" /\ WellFormed(a) /\ a.rows >= a.columns) => out = Ok(MathRank(a))

\* C3: for every square matrix of order 1, 2, 3 and >= 4, determinant returns
\* the signed sum over permutations.
C3_DeterminantIsLeibniz ==
    /\ (op = "determinant" /\ WellFormed(a) /\ IsSquare(a) /\ a.rows >= 1)
           => out = Ok(MathDet(a))
    /\ (op = "determinant" /\ a = Matrix(Ramp(4), 2, 2)) => out = Ok(F(-2))
    /\ (op = "determinant" /\ a = Matrix(Ramp(16), 4, 4)) => out = Ok(Zero)

\* a nonzero order-4 determinant to which the Laplace term of column 1, the
\* first with sign -1, contributes
C3_Witness ==
    /\ op = "determinant"
    /\ a.rows = 4 /\ a.columns = 4 /\ WellFormed(a)
    /\ a.data[2] # Zero
    /\ minor(a, 0, 1).kind = "ok" /\ determinant(minor(a, 0, 1).val) # Ok(Zero)
    /\ out.kind = "ok" /\ out.val # Zero

\* C4: from operands with data.len == rows * columns, every matrix a core
\* operation returns or mutates, and the working copy of rank, has
\* data.len == rows * columns.
MatrixResults ==
    {"addition", "subtraction", "hadamard_multiplication", "hadamard_division",
     "scalar_addition", "scalar_subtraction", "scalar_multiplication",
     "scalar_division", "multiply", "transpose", "minor", "inverse",
     "cross_product", "unit_vector", "vector_projection_onto"}

C4_StorageInvariant ==
    [][(WellFormed(a) /\ WellFormed(b))
          => /\ WellFormed(a')
             /\ WellFormed(b')
             /\ (op' \in MatrixResults /\ out'.kind = "ok") => WellFormed(out'.val)
             /\ (op' = "rank") => WellFormed(work'.matrix)]_vars

\* a minor was cut out of a 3x3 matrix
C4_Witness ==
    /\ op = "minor" /\ a.rows = 3 /\ out.kind = "ok"
    /\ out.val.rows = 2 /\ Len(out.val.data) = 4

\* C5: for every square matrix whose determinant is zero, determinant returns
\* Ok(0.0) and inverse returns Err; inverse never returns Ok when the
\* determinant's magnitude is below machine epsilon.
C5_SingularDetection ==
    (WellFormed(a) /\ IsSquare(a) /\ a.rows >= 1)
        => /\ (op = "determinant" /\ MathDet(a) = Zero) => out = Ok(Zero)
           /\ (op = "inverse" /\ MathDet(a) = Zero) => out.kind = "err"
           /\ (op = "inverse" /\ AbsLtEps(MathDet(a))) => out.kind # "ok"

\* inverse was called on [[1,2],[2,4]] and reported it singular
C5_Witness ==
    /\ op = "inverse"
    /\ a = Matrix(<<F(1), F(2), F(2), F(4)>>, 2, 2)
    /\ out.kind = "err"
    /\ determinant(a) = Ok(Zero)

\* C6: with rows != columns, determinant, inverse and trace return the
\* square-check failure whatever the data holds (nothing is read), and
\* inverse returns the failure determinant returns.
C6_NotSquareFailsFirst ==
    (op \in {"determinant", "inverse", "trace"} /\ a.rows # a.columns)
        => /\ out = Err(<<"Matrix is not square", a.rows, a.columns>>)
           /\ (op = "inverse") => out = determinant(a)

\* inverse was called on a non-square matrix whose data is empty, so that
\* any element read would have panicked
C6_Witness ==
    /\ op = "inverse"
    /\ a.rows = 2 /\ a.columns = 3 /\ a.data = <<>>
    /\ out.kind = "err"

\* the sum of the terms of a sequence
RECURSIVE SeqSum(_)
SeqSum(ts) == IF ts = <<>> THEN Zero ELSE RAdd(ts[1], SeqSum(Tail(ts)))

\* sum over k of a[i][k] * b[k][j]
RowColSum(x, y, i, j) ==
    SeqSum([k \in 1..x.columns |-> RMul(Entry(x, i, k - 1), Entry(y, k - 1, j))])

\* C7: multiply(a, b) returns Err exactly when a.columns != b.rows; otherwise
\* Ok of the a.rows x b.columns matrix whose entry (i, j) is the sum over k of
\* a[i][k] * b[k][j].
C7_Multiply ==
    (op = "multiply" /\ WellFormed(a) /\ WellFormed(b))
        => IF a.columns # b.rows THEN out.kind = "err"
           ELSE /\ out.kind = "ok"
                /\ out.val.rows = a.rows
                /\ out.val.columns = b.columns
                /\ Len(out.val.data) = a.rows * b.columns
                /\ \A i \in 0..(a.rows - 1), j \in 0..(b.columns - 1) :
                       Entry(out.val, i, j) = RowColSum(a, b, i, j)

\* [[1,2],[3,4]] squared is [[7,10],[15,22]]
C7_Witness ==
    /\ op = "multiply"
    /\ a = Matrix(Ramp(4), 2, 2) /\ b = a
    /\ out = Ok(Matrix(<<F(7), F(10), F(15), F(22)>>, 2, 2))

IsVector(m) == m.rows = 1 \/ m.columns = 1

SameShape(x, y) == x.rows = y.rows /\ x.columns = y.columns

\* C8: dot_product(a, b) returns Ok exactly when both pass the vector check
\* and have identical rows and columns, with the sum over i of a[i] * b[i];
\* in every other case it returns Err.
C8_DotProduct ==
    (op = "dot_product" /\ WellFormed(a) /\ WellFormed(b))
        => IF IsVector(a) /\ IsVector(b) /\ SameShape(a, b)
           THEN out = Ok(SeqSum([i \in 1..Len(a.data) |-> RMul(a.data[i], b.data[i])]))
           ELSE out.kind = "err"

\* the dot product of the column vector [1,2,3] with itself is 14
C8_Witness ==
    /\ op = "dot_product"
    /\ a = Matrix(Ramp(3), 3, 1) /\ b = a
    /\ out = Ok(F(14))

\* C9: dot_product returns Ok whenever both operands are vectors of the same
\* length, whatever their orientation, and Err only if an input is not a
\* vector or the lengths differ.
C9_DotProductAnyOrientation ==
    (op = "dot_product" /\ WellFormed(a) /\ WellFormed(b))
        => /\ (IsVector(a) /\ IsVector(b) /\ Len(a.data) = Len(b.data)) => out.kind = "ok"
           /\ (out.kind = "err")
                 => (~IsVector(a) \/ ~IsVector(b) \/ Len(a.data) # Len(b.data))

\* C10: check_3d_vector is true iff the shape is 3x1 or 1x3 and the data
\* holds exactly 3 elements.
C10_Check3dVectorStrict ==
    (op = "check_3d_vector")
        => out = Ok(/\ ((a.rows = 3 /\ a.columns = 1) \/ (a.rows = 1 /\ a.columns = 3))
                    /\ Len(a.data) = 3)

\* C11: cross_product(a, b) returns Err unless both a and b pass the
\* 3D-vector check; otherwise it returns Ok of a matrix with exactly 3
\* elements (a1*b2 - a2*b1, a2*b0 - a0*b2, a0*b1 - a1*b0), so that
\* [1,0,0] x [0,1,0] = [0,0,1] and [1,2,3] x [4,5,6] = [-3,6,-3].
C11_CrossProduct ==
    (op = "cross_product")
        => /\ IF check_3d_vector(a) /\ check_3d_vector(b)
              THEN /\ out.kind = "ok"
                   /\ Len(out.val.data) = 3
                   /\ out.val.data[1] = RSub(RMul(a.data[2], b.data[3]),
                                             RMul(a.data[3], b.data[2]))
                   /\ out.val.data[2] = RSub(RMul(a.data[3], b.data[1]),
                                             RMul(a.data[1], b.data[3]))
                   /\ out.val.data[3] = RSub(RMul(a.data[1], b.data[2]),
                                             RMul(a.data[2], b.data[1]))
              ELSE out.kind = "err"
           /\ (a.data = <<F(1), F(0), F(0)>> /\ b.data = <<F(0), F(1), F(0)>>
                 /\ out.kind = "ok")
                 => out.val.data = <<F(0), F(0), F(1)>>
           /\ (a.data = Ramp(3) /\ b.data = <<F(4), F(5), F(6)>> /\ out.kind = "ok")
                 => out.val.data = <<F(-3), F(6), F(-3)>>

\* C12: for any two 3D vectors a and b accepted by cross_product (3x1 or
\* 1x3, in any combination), with c = cross_product(a, b), dot_product(c, a)
\* and dot_product(c, b) both return Ok with value 0.
C12_CrossOrthogonal ==
    (op = "cross_product" /\ WellFormed(a) /\ WellFormed(b) /\ out.kind = "ok")
        => /\ dot_product(out.val, a) = Ok(Zero)
           /\ dot_product(out.val, b) = Ok(Zero)

\* what each element-wise method computes on a pair of elements
ElementOf(name, x, y) ==
    CASE name = "addition" -> RAdd(x, y)
      [] name = "subtraction" -> RSub(x, y)
      [] name = "hadamard_multiplication" -> RMul(x, y)
      [] name = "hadamard_division" -> RDiv(x, y)

ElementwiseMethods ==
    {"addition", "subtraction", "hadamard_multiplication", "hadamard_division"}

\* C13: elementwise_operation(a, b, op), and so addition, subtraction,
\* hadamard_multiplication and hadamard_division, returns Err exactly when a
\* and b differ in rows or columns; otherwise it returns Ok of a new matrix
\* with a's rows and columns whose i-th element is op(a[i], b[i]) for every
\* flat index i.
C13_Elementwise ==
    (op \in ElementwiseMethods /\ WellFormed(a) /\ WellFormed(b))
        => IF ~SameShape(a, b) THEN out.kind = "err"
           ELSE /\ out.kind = "ok"
                /\ out.val.rows = a.rows
                /\ out.val.columns = a.columns
                /\ Len(out.val.data) = a.rows * a.columns
                /\ \A i \in 1..(a.rows * a.columns) :
                       out.val.data[i] = ElementOf(op, a.data[i], b.data[i])

\* [[1,2],[3,4]] + ones(2, 2) is [[2,3],[4,5]]
C13_Witness ==
    /\ op = "addition"
    /\ a = Matrix(Ramp(4), 2, 2) /\ b = ones(2, 2)
    /\ out = Ok(Matrix(<<F(2), F(3), F(4), F(5)>>, 2, 2))

AllZero(m) == \A i \in 1..Len(m.data) : m.data[i] = Zero

\* C14: unit_vector and normalize return Err for every vector whose
\* magnitude is 0 (all elements zero) and for every non-vector matrix, and
\* when normalize returns Err the receiver's data, rows and columns are
\* exactly what they were before the call.
C14_ZeroMagnitudeRejected ==
    [][(op' \in {"unit_vector", "normalize"} /\ op = "new" /\ WellFormed(a))
          => /\ (~IsVector(a) \/ AllZero(a)) => out'.kind = "err"
             /\ (op' = "normalize" /\ out'.kind = "err") => a' = a]_vars

\* normalize was called on zeros(3, 1), failed, and left it as it was
C14_Witness ==
    /\ op = "normalize"
    /\ a = zeros(3, 1)
    /\ out = Err(<<"Cannot normalize zero-length vector">>)

\* [i >= k]: 1 when the index is at or past the deleted one
Skip(i, k) == IF i >= k THEN 1 ELSE 0

\* C15: minor(row, col) returns Err if the matrix is not square or if
\* row >= rows or col >= columns; otherwise, for an n x n matrix, it returns
\* the (n-1) x (n-1) matrix whose entry (i, j) is the source entry
\* (i + [i >= row], j + [j >= col]).
C15_Minor ==
    (op = "minor" /\ WellFormed(a))
        => LET row == args[1]
               col == args[2]
               n == a.rows
           IN  IF a.rows # a.columns \/ row >= a.rows \/ col >= a.columns
               THEN out.kind = "err"
               ELSE /\ out.kind = "ok"
                    /\ out.val.rows = n - 1
                    /\ out.val.columns = n - 1
                    /\ Len(out.val.data) = (n - 1) * (n - 1)
                    /\ \A i \in 0..(n - 2), j \in 0..(n - 2) :
                           Entry(out.val, i, j)
                               = Entry(a, i + Skip(i, row), j + Skip(j, col))

\* the middle row and column were cut out of [[1,2,3],[4,5,6],[7,8,9]]
C15_Witness ==
    /\ op = "minor"
    /\ a = Matrix(Ramp(9), 3, 3)
    /\ args = <<1, 1>>
    /\ out = Ok(Matrix(<<F(1), F(3), F(7), F(9)>>, 2, 2))

\* C16: transpose never fails and, for every rows x columns matrix (empty
\* and non-square ones included), returns a columns x rows matrix whose
\* entry (j, i) equals the source entry (i, j) for all i < rows, j < columns.
C16_Transpose ==
    (op = "transpose" /\ WellFormed(a))
        => /\ out.kind = "ok"
           /\ out.val.rows = a.columns
           /\ out.val.columns = a.rows
           /\ Len(out.val.data) = a.rows * a.columns
           /\ \A i \in 0..(a.rows - 1), j \in 0..(a.columns - 1) :
                  Entry(out.val, j, i) = Entry(a, i, j)

\* the transpose of [[1,2,3],[4,5,6]] is [[1,4],[2,5],[3,6]]
C16_Witness ==
    /\ op = "transpose"
    /\ a = Matrix(Ramp(6), 2, 3)
    /\ out = Ok(Matrix(<<F(1), F(4), F(2), F(5), F(3), F(6)>>, 3, 2))

\* C17: for every matrix A, transpose(transpose(A)) equals A in data, rows
\* and columns.
C17_DoubleTranspose ==
    (op = "transpose" /\ WellFormed(a))
        => /\ out.kind = "ok"
           /\ transpose(out.val) = Ok(a)

\* [[1,2],[3,4],[5,6]] was transposed to a 2x3 matrix with other data, and
\* transposing that gives it back
C17_Witness ==
    /\ op = "transpose"
    /\ a = Matrix(Ramp(6), 3, 2)
    /\ out.kind = "ok" /\ out.val.rows = 2 /\ out.val.data # a.data
    /\ transpose(out.val) = Ok(a)

\* C18: rank always returns a value and, for every matrix of every shape,
\* 0 <= rank(A) <= min(rows, columns); at every step of the elimination loop
\* the running rank counter is at most the number of columns already
\* examined.
C18_RankBounded ==
    (op = "rank" /\ WellFormed(a))
        => /\ out.kind = "ok"
           /\ 0 <= out.val
           /\ out.val <= Min(a.rows, a.columns)
           /\ \A k \in 0..Min(a.rows, a.columns) :
                  LET w == RankAfter(a, k)
                  IN  ~w.panicked /\ w.col = k /\ w.rank <= w.col
           /\ work = RankAfter(a, Min(a.rows, a.columns))
           /\ out.val = work.rank

\* [[1,2],[2,4]]: both columns were examined and one pivot was found
C18_Witness ==
    /\ op = "rank"
    /\ a = Matrix(<<F(1), F(2), F(2), F(4)>>, 2, 2)
    /\ out = Ok(1)
    /\ work.col = 2 /\ work.rank = 1
    /\ RankAfter(a, 1).rank = 1

\* C19: rank of an all-zero matrix of any shape is 0, and rank of
\* identity(n) is n for every n >= 1.
C19_RankOfZerosAndIdentity ==
    (op = "rank")
        => /\ (a = zeros(a.rows, a.columns)) => out = Ok(0)
           /\ (a.rows >= 1 /\ a = identity(a.rows)) => out = Ok(a.rows)

\* rank was called on identity(4) and on no smaller matrix
C19_Witness ==
    /\ op = "rank"
    /\ a = identity(4)
    /\ out = Ok(4)

\* C20: rank never mutates the caller's matrix: after rank(A) returns, A's
\* data, rows and columns are identical to their values before the call,
\* although the elimination swaps rows and rewrites entries; all of that
\* happens on a private working copy.
C20_RankLeavesReceiver ==
    [][(op' = "rank" /\ op = "new") => a' = a]_vars

\* rank of [[1,2],[3,4]]: the working copy was reduced to [[1,0],[0,-2]]
\* and the receiver still holds what it held
C20_Witness ==
    /\ op = "rank"
    /\ a = Matrix(Ramp(4), 2, 2)
    /\ work.matrix = Matrix(<<F(1), F(0), F(0), F(-2)>>, 2, 2)
    /\ out = Ok(2)

\* k^n
RECURSIVE RPow(_, _)
RPow(k, n) == IF n = 0 THEN One ELSE RMul(k, RPow(k, n - 1))

\* the scalars a matrix is scaled by, negative ones included
ScaleFactors == {F(k) : k \in (0 - MaxVal)..MaxVal}

\* C21: for every n x n matrix A and scalar k,
\* determinant(scalar_multiplication(A, k)) equals k^n * determinant(A).
C21_DeterminantScaling ==
    (op = "determinant" /\ WellFormed(a) /\ IsSquare(a))
        => /\ out.kind = "ok"
           /\ \A k \in ScaleFactors :
                  determinant(scalar_operation(a, k, "*"))
                      = Ok(RMul(RPow(k, a.rows), out.val))

\* [[1,2],[3,4]] has determinant -2, and twice the matrix has determinant -8
C21_Witness ==
    /\ op = "determinant"
    /\ a = Matrix(Ramp(4), 2, 2)
    /\ out = Ok(F(-2))
    /\ determinant(scalar_operation(a, F(2), "*")) = Ok(F(-8))

\* the operations that index into data
IndexingMethods ==
    {"determinant", "minor", "inverse", "trace", "rank", "multiply", "transpose",
     "cross_product"}

\* C22: for every matrix satisfying data.len == rows * columns, every
\* element access made by determinant, minor, inverse, trace, rank, multiply,
\* transpose and cross_product uses a flat index in 0..data.len, so none of
\* them ends in the fatal indexing fault; every failure of these operations
\* is returned as Err.
C22_InBounds ==
    (op \in IndexingMethods /\ WellFormed(a) /\ WellFormed(b))
        => /\ out # Panic
           /\ out.kind \in {"ok", "err"}
           /\ (op = "rank") => ~work.panicked

\* inverse of a 3x3 matrix: nine minors were cut and their determinants
\* read without a fault
C22_Witness ==
    /\ op = "inverse"
    /\ a.rows = 3 /\ a.columns = 3 /\ WellFormed(a)
    /\ out.kind = "ok"
    /\ Len(out.val.data) = 9

FixedConstructors == {"Matrix<N>::new", "Matrix<N>::zeros", "Matrix<N>::ones"}

\* C23: in the fixed-size variant Matrix<N>, the constructors new, zeros and
\* ones panic whenever rows * columns != N, so no Matrix<N> value with
\* rows * columns != N is ever constructed by them.
C23_FixedConstructorsFailFast ==
    (op \in FixedConstructors)
        => LET N == args[1]
               rows == args[2]
               columns == args[3]
           IN  /\ (rows * columns # N) => out.kind = "panic"
               /\ (out.kind = "ok")
                     => /\ out.val.rows * out.val.columns = N
                        /\ Len(out.val.data) = N
                        /\ out.val.rows = rows /\ out.val.columns = columns

\* Matrix::<6>::zeros(2, 2) panicked
C23_Witness ==
    /\ op = "Matrix<N>::zeros"
    /\ args = <<6, 2, 2>>
    /\ out.kind = "panic"

\* C24: scalar_projection_onto(a, b) and vector_projection_onto(a, b) return
\* Err whenever dot_product(a, b) returns Err (an operand is not a vector, or
\* the shapes differ), returning that failure unchanged and never an Ok with
\* a substituted default value.
C24_ProjectionPropagates ==
    (op \in {"scalar_projection_onto", "vector_projection_onto"}
       /\ WellFormed(a) /\ WellFormed(b))
        => /\ (~IsVector(a) \/ ~IsVector(b) \/ ~SameShape(a, b)) => out.kind = "err"
           /\ (dot_product(a, b).kind = "err") => out = dot_product(a, b)

\* a 3x1 vector projected onto a 1x3 vector: the dimension mismatch of the
\* dot product came back
C24_Witness ==
    /\ op = "scalar_projection_onto"
    /\ a = Matrix(Ramp(3), 3, 1) /\ b = ones(1, 3)
    /\ out.kind = "err"
    /\ out = check_dimensions_match(a, b)

\* (-1)^(row + col) * x
Alternate(k, x) == IF k % 2 = 0 THEN x ELSE RNeg(x)

\* C25: for every square matrix A of order n with |det(A)| >= epsilon,
\* inverse(A) is the n x n matrix whose entry (col, row) equals
\* (-1)^(row+col) * determinant(minor(A, row, col)) / determinant(A) for all
\* row, col < n: each cofactor is written at the transposed position, and
\* every entry of the preallocated result is overwritten.
C25_InverseByCofactors ==
    (op = "inverse" /\ WellFormed(a) /\ IsSquare(a)
       /\ determinant(a).kind = "ok" /\ ~AbsLtEps(determinant(a).val))
        => LET n == a.rows
               det == determinant(a).val
           IN  /\ out.kind = "ok"
               /\ out.val.rows = n
               /\ out.val.columns = n
               /\ Len(out.val.data) = n * n
               /\ \A row \in 0..(n - 1), col \in 0..(n - 1) :
                      Entry(out.val, col, row)
                          = RDiv(Alternate(row + col,
                                           determinant(minor(a, row, col).val).val),
                                 det)

\* [[4,7],[2,6]] has determinant 10 and inverse [[0.6,-0.7],[-0.2,0.4]]
C25_Witness ==
    /\ op = "inverse"
    /\ a = Matrix(<<F(4), F(7), F(2), F(6)>>, 2, 2)
    /\ out = Ok(Matrix(<<Norm(3, 5), Norm(-7, 10), Norm(-1, 5), Norm(2, 5)>>, 2, 2))

\* row <- row - factor * pivot row across all columns, for every row other
\* than `rank` from `row` on, with the factor the code computes
RECURSIVE SubtractEverywhere(_, _, _, _)
SubtractEverywhere(m, col, at, row) ==
    IF row >= m.rows THEN m
    ELSE IF row = at THEN SubtractEverywhere(m, col, at, row + 1)
    ELSE LET factor == RDiv(Entry(m, row, col), Entry(m, at, col))
             C == m.columns
             next == IF ~AbsGtEps(factor) THEN m
                     ELSE [m EXCEPT !.data =
                             [k \in 1..Len(m.data) |->
                                 IF (k - 1) \div C = row
                                 THEN RSub(m.data[k],
                                           RMul(factor, Entry(m, at, (k - 1) % C)))
                                 ELSE m.data[k]]]
         IN  SubtractEverywhere(next, col, at, row + 1)

\* the working matrix of pass k once the pivot row is in place
PivotPlaced(self, k) ==
    LET w == RankAfter(self, k)
        pivot_row == FindPivot(w.matrix, w.col, w.rank)
    IN  IF pivot_row = w.rank THEN w.matrix
        ELSE swap_rows(w.matrix, pivot_row, w.rank).val

\* the passes of the column loop in which a pivot is chosen
PivotPasses(self) ==
    {k \in 0..(Min(self.rows, self.columns) - 1) :
        LET w == RankAfter(self, k)
        IN  FindPivot(w.matrix, w.col, w.rank) >= 0}

C27_DeterminantTerminates ==
    (op \in {"determinant", "inverse"} /\ IsSquare(a) /\ WellFormed(a))
        => /\ out.kind \in {"ok", "err"}
           /\ \A c \in DeterminantCalls(a, 1) :
                  /\ c.to = c.from - 1
                  /\ c.from > 3
                  /\ c.to >= 3
                  /\ c.frame <= a.rows
           /\ (a.rows \in 1..3) => DeterminantCalls(a, 1) = {}

\* determinant of a 4x4 matrix called itself on four 3x3 minors and
\* returned
C27_Witness ==
    /\ op = "determinant"
    /\ a.rows = 4 /\ a.columns = 4 /\ WellFormed(a)
    /\ DeterminantCalls(a, 1) = {[from |-> 4, to |-> 3, frame |-> 2]}
    /\ out.kind = "ok"

\* C28: determinant of the empty 0x0 matrix returns Ok(0.0) (order 0 falls
\* into the Laplace branch with no columns); consequently every cofactor
\* computed from a 1x1 matrix's 0x0 minor is 0.
C28_EmptyDeterminant ==
    /\ (op = "determinant" /\ a.rows = 0 /\ a.columns = 0) => out = Ok(Zero)
    /\ (op = "inverse" /\ a.rows = 1 /\ a.columns = 1 /\ WellFormed(a))
          => /\ minor(a, 0, 0) = Ok(zeros(0, 0))
             /\ determinant(minor(a, 0, 0).val) = Ok(Zero)
             /\ (out.kind = "ok") => out.val = Matrix(<<Zero>>, 1, 1)

\* inverse of the 1x1 matrix [-2]: its only cofactor is 0
C28_Witness ==
    /\ op = "inverse"
    /\ a = Matrix(<<F(-2)>>, 1, 1)
    /\ out = Ok(Matrix(<<Zero>>, 1, 1))

\* what C29 says of a call of mul, apart from which operands can be
\* multiplied: a result only when r1 * c2 == N, a panic otherwise, and the
\* entries of the product
MulReturnsProduct ==
    LET N == Len(a.data)
    IN  /\ (out.kind = "ok") => a.rows * b.columns = N
        /\ (a.rows * b.columns # N) => out.kind = "panic"
        /\ (out.kind = "ok")
              => /\ out.val.rows = a.rows
                 /\ out.val.columns = b.columns
                 /\ Len(out.val.data) = N
                 /\ \A i \in 0..(a.rows - 1), j \in 0..(b.columns - 1) :
                        Entry(out.val, i, j) = RowColSum(a, b, i, j)

\* C29: Matrix<N>::mul of an r1 x c1 matrix by a c1 x c2 matrix returns a
\* result only when r1 * c2 == N; whenever r1 * c2 != N it panics while
\* allocating the result, so among operands that each hold N elements only
\* square operands can be multiplied; when it does return, entry (i, j) is
\* the sum over k of a[i][k] * b[k][j].
C29_FixedMul ==
    (op = "Matrix<N>::mul" /\ a.columns = b.rows)
        => /\ MulReturnsProduct
           /\ (out.kind = "ok") => (IsSquare(a) /\ IsSquare(b))

\* C29 as amended: the same, with only square operands multiplying among
\* operands that each hold N >= 1 elements (with N = 0, empty operands
\* that are not square are multiplied as well).
C29_FixedMulNonEmpty ==
    (op = "Matrix<N>::mul" /\ a.columns = b.rows)
        => /\ MulReturnsProduct
           /\ (out.kind = "ok" /\ Len(a.data) >= 1) => (IsSquare(a) /\ IsSquare(b))

\* Matrix<4>: [[1,2],[3,4]] squared is [[7,10],[15,22]]
C29_Witness ==
    /\ op = "Matrix<N>::mul"
    /\ a = Matrix(Ramp(4), 2, 2) /\ b = a
    /\ out = Ok(Matrix(<<F(7), F(10), F(15), F(22)>>, 2, 2))

\* the row that row i holds after rows row1 and row2 are exchanged
Exchanged(i, row1, row2) == IF i = row1 THEN row2 ELSE IF i = row2 THEN row1 ELSE i

\* C30: swap_rows(row1, row2) leaves the matrix completely unchanged when
\* row1 >= rows or row2 >= rows (silent no-op, no error, no panic); when both
\* are in bounds it exchanges exactly the entries of those two rows and
\* leaves every other row, rows and columns unchanged.
C30_SwapRows ==
    [][(op' = "swap_rows" /\ op = "new" /\ WellFormed(a))
          => LET row1 == args'[1]
                 row2 == args'[2]
             IN  /\ out' = Ok(<<>>)
                 /\ a'.rows = a.rows
                 /\ a'.columns = a.columns
                 /\ Len(a'.data) = Len(a.data)
                 /\ (row1 >= a.rows \/ row2 >= a.rows) => a' = a
                 /\ (row1 < a.rows /\ row2 < a.rows)
                       => \A i \in 0..(a.rows - 1), j \in 0..(a.columns - 1) :
                              Entry(a', i, j) = Entry(a, Exchanged(i, row1, row2), j)]_vars

\* rows 0 and 2 of a 3x2 matrix were exchanged: [[1,2],[3,4],[5,6]] became
\* [[5,6],[3,4],[1,2]]
C30_Witness ==
    /\ op = "swap_rows"
    /\ args = <<0, 2>>
    /\ a = Matrix(<<F(5), F(6), F(3), F(4), F(1), F(2)>>, 3, 2)
    /\ out = Ok(<<>>)

====
